---- MODULE Spec2Model ----
(***************************************************************************)
(* Model of the human-id repository.                                       *)
(*                                                                         *)
(*   - the signed identity ledger (creaIdentita, appendEventSigned,        *)
(*     aggiornaVerificaFirmata, verificaIdentita) and its global anchor    *)
(*     file;                                                               *)
(*   - the earlier, unsigned ledger module that works on the same files    *)
(*     (creaIdentita, aggiornaVerifica, verificaIdentita) and the /update  *)
(*     route that calls it;                                                *)
(*   - the challenge / prove handlers of server.js, atomically (in-memory  *)
(*     store) and await by await (database store);                         *)
(*   - the attest / verify handlers of server.js and the derived level;    *)
(*   - the ledger calls one storage write at a time, with write failures.  *)
(*                                                                         *)
(* JavaScript values whose type the code inspects are records              *)
(* [t |-> type, v |-> chunks]: a string is the sequence of its chunks (a   *)
(* chunk " " is white space), a number is its decimal text.  sha256 and    *)
(* Ed25519 are symbolic: a digest is the text it was computed from, a      *)
(* signature names the key that made it and the message it covers.         *)
(***************************************************************************)
EXTENDS Integers, Sequences, FiniteSets, TLC

VARIABLES
    identities,   \* identities/<id>.json : id -> chain (sequence of blocks)
    globalChain,  \* global-chain.json    : sequence of {id, timestamp, latestHash}
    result,       \* what the last ledger call returned (or that it threw)
    committed,    \* history: id -> the chain as the ledger code last wrote it
    anchored,     \* history: id -> the latestHash the ledger code last wrote
    tampers,      \* history: number of out-of-band edits of the two files
    pending,      \* ledger requests that arrived and are not yet served
    calls,        \* ledger calls between their first storage write and their return
    arrived,      \* history: number of ledger requests that arrived
    accepted,     \* history: the blocks of the calls that returned success
    failed,       \* history: the blocks of the calls a storage write ended
    subjects,     \* mem.subjects   : did -> publicKeyPem
    challenges,   \* mem.challenges : did -> {nonce, expMs}
    now,          \* Date.now()
    ticks,        \* history: number of clock advances
    issued,       \* history: number of nonces drawn from crypto.randomBytes
    issuedTo,     \* history: the DID each issued nonce was stored for, in order
    consumed,     \* history: {did, nonce} pairs for which /prove answered ok
    mismatched,   \* history: {did, stored nonce} pairs that saw a wrong nonce
    resp,         \* what the last HTTP handler answered
    inflight,     \* /prove requests waiting at one of the handler's storage awaits
    proofs,       \* history: number of /prove requests begun await by await
    oks,          \* history: the {did, nonce} of every ok answer of /prove, in order
    attestations, \* mem.attestations : did -> list of attestation records
    config        \* the issuer and suspension keys read from the environment

stepVars == <<pending, calls, arrived, accepted, failed>>
ledgerVars == <<identities, globalChain, result, committed, anchored, tampers,
                pending, calls, arrived, accepted, failed>>
raceVars == <<inflight, proofs, oks>>
serverVars == <<subjects, challenges, now, ticks, issued, issuedTo, consumed, mismatched, resp,
                inflight, proofs, oks>>
attestVars == <<attestations, config>>
vars == <<identities, globalChain, result, committed, anchored, tampers,
          pending, calls, arrived, accepted, failed,
          subjects, challenges, now, ticks, issued, issuedTo, consumed, mismatched,
          resp, inflight, proofs, oks, attestations, config>>

----------------------------------------------------------------------------
(* Bounds *)

MaxIds == 2          \* identities created
MaxLen == 3          \* blocks per ledger
MaxBlocks == 5       \* blocks in all ledgers together
MaxTampers == 1      \* out-of-band edits
MaxTicks == 2        \* clock advances
MaxNonces == 2       \* challenges issued
MaxAtts == 3         \* attestations stored for all DIDs together
MaxCalls == 3        \* ledger requests that arrive
MaxProofs == 2       \* /prove requests begun await by await

----------------------------------------------------------------------------
(* JavaScript values *)

Str(chunks) == [t |-> "string", v |-> chunks]
Num(digits) == [t |-> "number", v |-> <<digits>>]
Undefined == [t |-> "undefined", v |-> <<>>]
Null == [t |-> "null", v |-> <<>>]

Range(s) == {s[i] : i \in 1..Len(s)}

RECURSIVE Join(_)
Join(chunks) == IF chunks = <<>> THEN "" ELSE Head(chunks) \o Join(Tail(chunks))

RECURSIVE TrimStart(_)
TrimStart(chunks) ==
    IF chunks # <<>> /\ Head(chunks) = " " THEN TrimStart(Tail(chunks)) ELSE chunks

RECURSIVE TrimEnd(_)
TrimEnd(chunks) ==
    IF chunks # <<>> /\ chunks[Len(chunks)] = " "
    THEN TrimEnd(SubSeq(chunks, 1, Len(chunks) - 1))
    ELSE chunks

\* String.prototype.trim
Trim(chunks) == TrimEnd(TrimStart(chunks))

\* `${x}` in a template literal
Template(x) ==
    CASE x.t = "string" -> Join(x.v)
      [] x.t = "number" -> x.v[1]
      [] x.t = "undefined" -> "undefined"
      [] OTHER -> "null"

\* !x
Falsy(x) ==
    \/ x.t \in {"undefined", "null"}
    \/ x.t = "string" /\ Join(x.v) = ""
    \/ x.t = "number" /\ x.v[1] \in {"0", "NaN"}

----------------------------------------------------------------------------
(* Cryptography *)

Keys == {"K1", "K2"}

sha256(data) == "sha256(" \o data \o ")"

Quote(s) == "'" \o s \o "'"

\* JSON text of a value held as [t, v]
JsonValue(x) ==
    CASE x.t = "string" -> Quote(Join(x.v))
      [] x.t = "number" -> x.v[1]
      [] OTHER -> "null"

\* JSON text of a submitted signature (its base64 text stands for the key
\* that signed and the message signed)
JsonSignature(sig) ==
    IF sig.t = "string" THEN Quote(sig.signer \o "/" \o sig.msg) ELSE "0"

JsonPayload(p) ==
    "{id:" \o Quote(p.id) \o ",level:" \o JsonValue(p.level)
           \o ",ts:" \o p.ts \o ",nonce:" \o Quote(p.nonce) \o "}"

\* the keys a block's data may hold, in the order they are written
DataKeys == <<"status", "payload", "signatureB64", "verificationLevel", "publicKeyPem">>

JsonField(data, key) ==
    IF key \notin DOMAIN data THEN ""
    ELSE key \o ":" \o
         (CASE key = "status" -> Quote(data[key])
            [] key = "payload" -> JsonPayload(data[key])
            [] key = "signatureB64" -> JsonSignature(data[key])
            [] OTHER -> JsonValue(data[key])) \o ","

RECURSIVE JsonFields(_, _)
JsonFields(data, n) ==
    IF n = 0 THEN "" ELSE JsonFields(data, n - 1) \o JsonField(data, DataKeys[n])

\* JSON.stringify of a block: its fields in the order the code writes them
Stringify(block) ==
    "{index:" \o ToString(block.index) \o ",timestamp:" \o Quote(block.timestamp)
        \o ",event:" \o Quote(block.event)
        \o ",data:{" \o JsonFields(block.data, Len(DataKeys)) \o "}"
        \o ",previousHash:" \o Quote(block.previousHash)
        \o (IF "hash" \in DOMAIN block THEN ",hash:" \o Quote(block.hash) ELSE "")
        \o "}"

\* the key a PEM text holds, "unparsable" when it holds none
KeyMaterial(pem) ==
    IF \E k \in Keys : k \in Range(pem.v)
    THEN CHOOSE k \in Keys : k \in Range(pem.v)
    ELSE "unparsable"

\* a base64 string holding the Ed25519 signature of msg under key
Sign(key, msg) == [t |-> "string", signer |-> key, msg |-> msg]
NoSignature == [t |-> "undefined", signer |-> "", msg |-> ""]
NumberSignature == [t |-> "number", signer |-> "", msg |-> ""]

\* crypto.verify(null, msg, publicKeyPem, signature)
CryptoVerify(msg, pem, sig) == sig.signer = KeyMaterial(pem) /\ sig.msg = msg

----------------------------------------------------------------------------
(* The signed ledger module *)

\* new Date().toISOString()
Timestamps == {"2024-01-01T00:00:00.000Z"}

\* what a call hands back: kind is "ok", "error" (an { error } object was
\* returned) or "throw" (an exception left the function)
Res(op, kind, error, id) ==
    [op |-> op, kind |-> kind, error |-> error, id |-> id, valid |-> FALSE,
     status |-> "", verificationLevel |-> Null, blocks |-> 0]

\* the state of the two files after a call, with what the call returned
Outcome(ids, gc, res) == [identities |-> ids, globalChain |-> gc, result |-> res]

canonicalMessage(payload) ==
    "id=" \o payload.id \o "|level=" \o Template(payload.level)
          \o "|ts=" \o payload.ts \o "|nonce=" \o payload.nonce

normalizePemPublicKey(pub) ==
    IF pub.t # "string" THEN Null
    ELSE LET trimmed == Trim(pub.v)
         IN  IF "BEGIN PUBLIC KEY" \notin Range(trimmed) THEN Null ELSE Str(trimmed)

\* fs.existsSync(identityPath(id)); getChain returns null when it is false
ChainExists(id) == id \in DOMAIN identities
getChain(id) == identities[id]

getGenesisPublicKey(chain) ==
    IF chain = <<>> THEN Null
    ELSE IF "publicKeyPem" \notin DOMAIN chain[1].data THEN Null
    ELSE normalizePemPublicKey(chain[1].data.publicKeyPem)

\* the block object before its hash field is added; also { hash, ...withoutHash }
WithoutHash(b) ==
    [index |-> b.index, timestamp |-> b.timestamp, event |-> b.event,
     data |-> b.data, previousHash |-> b.previousHash]

WithHash(b, h) ==
    [index |-> b.index, timestamp |-> b.timestamp, event |-> b.event,
     data |-> b.data, previousHash |-> b.previousHash, hash |-> h]

\* globalChain.find(r => r.id === id), as an index (0: not found)
FindRecord(gc, id) ==
    IF \E i \in 1..Len(gc) : gc[i].id = id
    THEN CHOOSE i \in 1..Len(gc) : gc[i].id = id /\ \A j \in 1..(i - 1) : gc[j].id # id
    ELSE 0

\* a mistaken upsert: a record is pushed on every call
updateGlobalAnchor_AlwaysPush(gc, id, latestHash, t) ==
    Append(gc, [id |-> id, timestamp |-> t, latestHash |-> latestHash])

updateGlobalAnchor(gc, id, latestHash, t) ==
    LET rec == FindRecord(gc, id)
    IN  IF rec # 0
        THEN [gc EXCEPT ![rec].latestHash = latestHash, ![rec].timestamp = t]
        ELSE Append(gc, [id |-> id, timestamp |-> t, latestHash |-> latestHash])

creaIdentita(publicKeyPem, id, t) ==
    LET pk == normalizePemPublicKey(publicKeyPem)
        genesisBlock ==
            [index |-> 0, timestamp |-> t, event |-> "CREATION",
             data |-> [status |-> "ACTIVE", verificationLevel |-> Str(<<"AI_PENDING">>),
                       publicKeyPem |-> pk],
             previousHash |-> "GENESIS"]
        hash == sha256(Stringify(genesisBlock))
        chain == <<WithHash(genesisBlock, hash)>>
    IN  IF Falsy(pk)
        THEN Outcome(identities, globalChain,
                     Res("creaIdentita", "error",
                         "publicKeyPem mancante o non valida (PEM PUBLIC KEY)", ""))
        ELSE Outcome([i \in DOMAIN identities \cup {id} |->
                          IF i = id THEN chain ELSE identities[i]],
                     updateGlobalAnchor(globalChain, id, hash, t),
                     Res("creaIdentita", "ok", "", ""))

\* { ...a, ...b }
Spread(a, b) ==
    [k \in DOMAIN a \cup DOMAIN b |-> IF k \in DOMAIN b THEN b[k] ELSE a[k]]

\* a mistaken link: previousHash taken from the genesis block
NewBlock_LinkGenesis(chain, event, data, t) ==
    LET newBlock ==
            [index |-> Len(chain), timestamp |-> t, event |-> event, data |-> data,
             previousHash |-> chain[1].hash]
    IN  WithHash(newBlock, sha256(Stringify(newBlock)))

\* the new block of an append: linked to the last block, hashed before the
\* hash field is added
NewBlock(chain, event, data, t) ==
    LET lastBlock == chain[Len(chain)]
        newBlock ==
            [index |-> Len(chain), timestamp |-> t, event |-> event, data |-> data,
             previousHash |-> lastBlock.hash]
    IN  WithHash(newBlock, sha256(Stringify(newBlock)))

\* a mistaken store: chain[chain.length - 1] = newBlock
Push_OverLast(chain, newBlock) == [chain EXCEPT ![Len(chain)] = newBlock]

\* chain.push(newBlock)
Push(chain, newBlock) == Append(chain, newBlock)

\* a mistaken order: the block is stored and anchored before the signature
\* is verified
appendEventSigned_StoreFirst(id, event, payload, signatureB64, dataExtra, t) ==
    LET Err(e) == Outcome(identities, globalChain, Res("appendEventSigned", "error", e, ""))
        chain == getChain(id)
        publicKeyPem == getGenesisPublicKey(chain)
        msg == canonicalMessage(payload)
        newBlock == NewBlock(chain, event,
                             Spread([payload |-> payload, signatureB64 |-> signatureB64],
                                    dataExtra), t)
        stored == [identities EXCEPT ![id] = Push(chain, newBlock)]
        anchor == updateGlobalAnchor(globalChain, id, newBlock.hash, t)
    IN  IF ~ChainExists(id) THEN Err("Identita non trovata.")
        ELSE IF Falsy(publicKeyPem) THEN Err("Public key non presente/valida in genesis.")
        ELSE IF payload = Undefined \/ signatureB64.t = "undefined"
             THEN Err("payload e signature richiesti.")
        ELSE IF payload.id # id THEN Err("payload.id non combacia con id.")
        ELSE IF signatureB64.t # "string" THEN Err("signature non e base64 valida.")
        ELSE IF KeyMaterial(publicKeyPem) = "unparsable"
             THEN Outcome(identities, globalChain,
                          Res("appendEventSigned", "throw", "crypto.verify", ""))
        ELSE IF ~CryptoVerify(msg, publicKeyPem, signatureB64)
             THEN Outcome(stored, anchor,
                          Res("appendEventSigned", "error",
                              "Firma NON valida. Update rifiutato.", ""))
        ELSE Outcome(stored, anchor, Res("appendEventSigned", "ok", "", ""))

\* a mistaken append: a payload whose nonce is already in the ledger is refused
appendEventSigned_RejectReplay(id, event, payload, signatureB64, dataExtra, t) ==
    LET Err(e) == Outcome(identities, globalChain, Res("appendEventSigned", "error", e, ""))
        chain == getChain(id)
        publicKeyPem == getGenesisPublicKey(chain)
        msg == canonicalMessage(payload)
        newBlock == NewBlock(chain, event,
                             Spread([payload |-> payload, signatureB64 |-> signatureB64],
                                    dataExtra), t)
    IN  IF ~ChainExists(id) THEN Err("Identita non trovata.")
        ELSE IF Falsy(publicKeyPem) THEN Err("Public key non presente/valida in genesis.")
        ELSE IF payload = Undefined \/ signatureB64.t = "undefined"
             THEN Err("payload e signature richiesti.")
        ELSE IF payload.id # id THEN Err("payload.id non combacia con id.")
        ELSE IF signatureB64.t # "string" THEN Err("signature non e base64 valida.")
        ELSE IF KeyMaterial(publicKeyPem) = "unparsable"
             THEN Outcome(identities, globalChain,
                          Res("appendEventSigned", "throw", "crypto.verify", ""))
        ELSE IF ~CryptoVerify(msg, publicKeyPem, signatureB64)
             THEN Err("Firma NON valida. Update rifiutato.")
        ELSE IF \E n \in 1..Len(chain) :
                    /\ "payload" \in DOMAIN chain[n].data
                    /\ chain[n].data.payload.nonce = payload.nonce
             THEN Err("nonce gia usato.")
        ELSE Outcome([identities EXCEPT ![id] = Push(chain, newBlock)],
                     updateGlobalAnchor(globalChain, id, newBlock.hash, t),
                     Res("appendEventSigned", "ok", "", ""))

appendEventSigned(id, event, payload, signatureB64, dataExtra, t) ==
    LET Err(e) == Outcome(identities, globalChain, Res("appendEventSigned", "error", e, ""))
        chain == getChain(id)
        publicKeyPem == getGenesisPublicKey(chain)
        msg == canonicalMessage(payload)
        newBlock == NewBlock(chain, event,
                             Spread([payload |-> payload, signatureB64 |-> signatureB64],
                                    dataExtra), t)
    IN  IF ~ChainExists(id) THEN Err("Identita non trovata.")
        ELSE IF Falsy(publicKeyPem) THEN Err("Public key non presente/valida in genesis.")
        ELSE IF payload = Undefined \/ signatureB64.t = "undefined"
             THEN Err("payload e signature richiesti.")
        ELSE IF payload.id # id THEN Err("payload.id non combacia con id.")
        ELSE IF signatureB64.t # "string" THEN Err("signature non e base64 valida.")
        ELSE IF KeyMaterial(publicKeyPem) = "unparsable"
             THEN Outcome(identities, globalChain,
                          Res("appendEventSigned", "throw", "crypto.verify", ""))
        ELSE IF ~CryptoVerify(msg, publicKeyPem, signatureB64)
             THEN Err("Firma NON valida. Update rifiutato.")
        ELSE Outcome([identities EXCEPT ![id] = Push(chain, newBlock)],
                     updateGlobalAnchor(globalChain, id, newBlock.hash, t),
                     Res("appendEventSigned", "ok", "", ""))

normalizeLevel(level) ==
    CASE level.t = "number" ->
           CASE level.v[1] = "0" -> Str(<<"AI_PENDING">>)
             [] level.v[1] = "1" -> Str(<<"AI_VERIFIED">>)
             [] level.v[1] = "2" -> Str(<<"SPID_VERIFIED">>)
             [] level.v[1] = "3" -> Str(<<"JURY_APPROVED">>)
             [] OTHER -> Str(<<"LEVEL_" \o level.v[1]>>)
      [] level.t = "string" -> Str(Trim(level.v))
      [] OTHER -> Null

aggiornaVerificaFirmata(id, payload, signatureB64, t) ==
    LET level == normalizeLevel(IF payload = Undefined THEN Undefined ELSE payload.level)
    IN  IF Falsy(level)
        THEN Outcome(identities, globalChain,
                     Res("aggiornaVerificaFirmata", "error", "level non valido.", ""))
        ELSE appendEventSigned(id, "UPDATE_VERIFICATION",
                               [payload EXCEPT !.level = level], signatureB64,
                               [verificationLevel |-> level], t)

\* a mistaken loop: the first update found is kept, later ones are ignored
RECURSIVE ScanLevel_KeepFirst(_, _, _)
ScanLevel_KeepFirst(chain, n, start) ==
    IF n = 0 THEN start
    ELSE LET b == chain[n]
             earlier == ScanLevel_KeepFirst(chain, n - 1, start)
         IN  IF \E i \in 1..(n - 1) : chain[i].event = "UPDATE_VERIFICATION"
             THEN earlier
             ELSE IF /\ b.event = "UPDATE_VERIFICATION"
                     /\ "verificationLevel" \in DOMAIN b.data
                     /\ ~Falsy(b.data.verificationLevel)
             THEN b.data.verificationLevel
             ELSE earlier

\* the loop of verificaIdentita over the blocks 1..n of the chain
RECURSIVE ScanLevel(_, _, _)
ScanLevel(chain, n, start) ==
    IF n = 0 THEN start
    ELSE LET b == chain[n]
         IN  IF /\ b.event = "UPDATE_VERIFICATION"
                /\ "verificationLevel" \in DOMAIN b.data
                /\ ~Falsy(b.data.verificationLevel)
             THEN b.data.verificationLevel
             ELSE ScanLevel(chain, n - 1, start)

RECURSIVE ScanStatus(_, _, _)
ScanStatus(chain, n, start) ==
    IF n = 0 THEN start
    ELSE LET b == chain[n]
         IN  IF b.event = "STATUS_REVOKED" THEN "REVOKED"
             ELSE IF b.event = "STATUS_SUSPENDED" THEN "SUSPENDED"
             ELSE ScanStatus(chain, n - 1, start)

\* a mistaken check: the anchor may name any block of the chain
verificaIdentita_AnyBlock(id) ==
    LET chain == getChain(id)
        record == FindRecord(globalChain, id)
        lastBlock == chain[Len(chain)]
        recalculated == sha256(Stringify(WithoutHash(lastBlock)))
        valid == \E i \in 1..Len(chain) :
                     sha256(Stringify(WithoutHash(chain[i]))) = globalChain[record].latestHash
        level0 == IF "verificationLevel" \in DOMAIN chain[1].data
                  THEN chain[1].data.verificationLevel ELSE Str(<<"AI_PENDING">>)
        status0 == IF "status" \in DOMAIN chain[1].data
                   THEN chain[1].data.status ELSE "ACTIVE"
    IN  IF ~ChainExists(id)
        THEN Res("verificaIdentita", "error", "Identita non trovata.", id)
        ELSE IF record = 0
        THEN Res("verificaIdentita", "error", "Record non presente nella Global Chain.", id)
        ELSE IF chain = <<>>
        THEN Res("verificaIdentita", "throw", "TypeError", id)
        ELSE [op |-> "verificaIdentita", kind |-> "ok", error |-> "", id |-> id,
              valid |-> valid,
              status |-> ScanStatus(chain, Len(chain), status0),
              verificationLevel |-> ScanLevel(chain, Len(chain), level0),
              blocks |-> Len(chain)]

\* a mistaken check: the stored hash field is trusted, not recomputed
verificaIdentita_StoredHash(id) ==
    LET chain == getChain(id)
        record == FindRecord(globalChain, id)
        lastBlock == chain[Len(chain)]
        recalculated == sha256(Stringify(WithoutHash(lastBlock)))
        valid == lastBlock.hash = globalChain[record].latestHash
        level0 == IF "verificationLevel" \in DOMAIN chain[1].data
                  THEN chain[1].data.verificationLevel ELSE Str(<<"AI_PENDING">>)
        status0 == IF "status" \in DOMAIN chain[1].data
                   THEN chain[1].data.status ELSE "ACTIVE"
    IN  IF ~ChainExists(id)
        THEN Res("verificaIdentita", "error", "Identita non trovata.", id)
        ELSE IF record = 0
        THEN Res("verificaIdentita", "error", "Record non presente nella Global Chain.", id)
        ELSE IF chain = <<>>
        THEN Res("verificaIdentita", "throw", "TypeError", id)
        ELSE [op |-> "verificaIdentita", kind |-> "ok", error |-> "", id |-> id,
              valid |-> valid,
              status |-> ScanStatus(chain, Len(chain), status0),
              verificationLevel |-> ScanLevel(chain, Len(chain), level0),
              blocks |-> Len(chain)]

verificaIdentita(id) ==
    LET chain == getChain(id)
        record == FindRecord(globalChain, id)
        lastBlock == chain[Len(chain)]
        recalculated == sha256(Stringify(WithoutHash(lastBlock)))
        valid == recalculated = globalChain[record].latestHash
        level0 == IF "verificationLevel" \in DOMAIN chain[1].data
                  THEN chain[1].data.verificationLevel ELSE Str(<<"AI_PENDING">>)
        status0 == IF "status" \in DOMAIN chain[1].data
                   THEN chain[1].data.status ELSE "ACTIVE"
    IN  IF ~ChainExists(id)
        THEN Res("verificaIdentita", "error", "Identita non trovata.", id)
        ELSE IF record = 0
        THEN Res("verificaIdentita", "error", "Record non presente nella Global Chain.", id)
        ELSE IF chain = <<>>
        THEN Res("verificaIdentita", "throw", "TypeError", id)
        ELSE [op |-> "verificaIdentita", kind |-> "ok", error |-> "", id |-> id,
              valid |-> valid,
              status |-> ScanStatus(chain, Len(chain), status0),
              verificationLevel |-> ScanLevel(chain, Len(chain), level0),
              blocks |-> Len(chain)]

----------------------------------------------------------------------------
(* The unsigned ledger module (same files, no public key, no signature) *)

registraSuGlobalChain(gc, id, latestHash, t) ==
    Append(gc, [id |-> id, timestamp |-> t, latestHash |-> latestHash])

LegacyCreaIdentita(id, t) ==
    LET genesisBlock ==
            [index |-> 0, timestamp |-> t, event |-> "CREATION",
             data |-> [verificationLevel |-> Str(<<"AI_PENDING">>), status |-> "ACTIVE"],
             previousHash |-> "GENESIS"]
        hash == sha256(Stringify(genesisBlock))
        chain == <<WithHash(genesisBlock, hash)>>
    IN  Outcome([i \in DOMAIN identities \cup {id} |->
                     IF i = id THEN chain ELSE identities[i]],
                registraSuGlobalChain(globalChain, id, hash, t),
                Res("creaIdentita", "ok", "", ""))

aggiornaVerifica(id, nuovoLivello, t) ==
    LET chain == identities[id]
        lastBlock == chain[Len(chain)]
        newBlock ==
            [index |-> Len(chain), timestamp |-> t, event |-> "UPDATE_VERIFICATION",
             data |-> [verificationLevel |-> nuovoLivello],
             previousHash |-> lastBlock.hash]
        hash == sha256(Stringify(newBlock))
        record == FindRecord(globalChain, id)
    IN  IF id \notin DOMAIN identities
        THEN Outcome(identities, globalChain,
                     Res("aggiornaVerifica", "error", "Identita non trovata.", ""))
        ELSE IF chain = <<>>
        THEN Outcome(identities, globalChain,
                     Res("aggiornaVerifica", "throw", "TypeError", ""))
        ELSE Outcome([identities EXCEPT ![id] = Append(chain, WithHash(newBlock, hash))],
                     IF record # 0
                     THEN [globalChain EXCEPT ![record].latestHash = hash]
                     ELSE globalChain,
                     Res("aggiornaVerifica", "ok", "", ""))

LegacyVerificaIdentita(id) ==
    LET microChain == identities[id]
        record == FindRecord(globalChain, id)
        lastBlock == microChain[Len(microChain)]
        recalculatedHash ==
            sha256(Stringify([index |-> lastBlock.index,
                              timestamp |-> lastBlock.timestamp,
                              event |-> lastBlock.event,
                              data |-> lastBlock.data,
                              previousHash |-> lastBlock.previousHash]))
    IN  IF id \notin DOMAIN identities
        THEN Res("verificaIdentita", "error", "Identita non trovata.", id)
        ELSE IF globalChain = <<>>
        THEN Res("verificaIdentita", "error", "Global chain non trovata.", id)
        ELSE IF record = 0
        THEN Res("verificaIdentita", "error", "Record non presente nella Global Chain.", id)
        ELSE IF microChain = <<>>
        THEN Res("verificaIdentita", "throw", "TypeError", id)
        ELSE [Res("verificaIdentita", "ok", "", id) EXCEPT
                 !.valid = (recalculatedHash = globalChain[record].latestHash)]

\* POST /update of the server that requires the unsigned module
PostUpdate(id, level, t) ==
    IF id = "" \/ Falsy(level)
    THEN Outcome(identities, globalChain,
                 Res("POST /update", "error", "id e level richiesti", ""))
    ELSE aggiornaVerifica(id, level, t)

----------------------------------------------------------------------------
(* Inputs *)

\* crypto.randomBytes(16).toString("hex"): the n-th identity gets the n-th id
IdOf(n) == "id" \o ToString(n)
NextId == IdOf(Cardinality(DOMAIN identities) + 1)
UnknownId == "id0"
RequestIds == DOMAIN identities \cup {UnknownId}

PemInputs ==
    { Str(<<" ", "BEGIN PUBLIC KEY", "K1", " ">>),
      Str(<<"BEGIN PUBLIC KEY", "junk">>),
      Str(<<"K1">>),
      Undefined }

LevelInputs == { Num("2"), Str(<<" ", "SPID_VERIFIED", " ">>), Undefined }

Payload(id, level) == [id |-> id, level |-> level, ts |-> "1000", nonce |-> "n1"]

\* payloads a caller may submit for the ledger id: none, one for this
\* ledger at each level, one that names another ledger
PayloadInputs(id) ==
    {Undefined, Payload(UnknownId, Num("2"))} \cup
    { Payload(id, l) : l \in LevelInputs }

\* signatures a caller may submit with a payload: none, a number, and what
\* a key holder gets by signing the payload with the level as submitted (a
\* number) or as its name
SignatureInputs(payload) ==
    {NoSignature, NumberSignature} \cup
    IF payload = Undefined THEN {}
    ELSE { Sign("K1", canonicalMessage(payload)),
           Sign("K1", canonicalMessage([payload EXCEPT !.level = Str(<<"SPID_VERIFIED">>)])),
           Sign("K2", canonicalMessage([payload EXCEPT !.level = Str(<<"SPID_VERIFIED">>)])) }

----------------------------------------------------------------------------
(* Ledger actions *)

\* write what a call left in the two files; the history variables follow
\* every ledger the call wrote
Commit(outcome) ==
  \E out \in {outcome} :
    /\ identities' = out.identities
    /\ globalChain' = out.globalChain
    /\ result' = out.result
    /\ committed' =
           [i \in DOMAIN out.identities |->
               IF i \in DOMAIN identities /\ out.identities[i] = identities[i]
               THEN committed[i] ELSE out.identities[i]]
    /\ anchored' =
           [i \in DOMAIN out.identities |->
               IF i \in DOMAIN identities /\ out.identities[i] = identities[i]
               THEN anchored[i]
               ELSE LET r == FindRecord(out.globalChain, i)
                    IN  IF r = 0 THEN "" ELSE out.globalChain[r].latestHash]
    /\ UNCHANGED <<tampers, stepVars, serverVars, attestVars>>

\* room for one more block in the ledger a call addresses
RECURSIVE Blocks(_)
Blocks(ids) ==
    IF ids = {} THEN 0
    ELSE LET i == CHOOSE i \in ids : TRUE IN Len(identities[i]) + Blocks(ids \ {i})

Room(id) ==
    /\ Blocks(DOMAIN identities) < MaxBlocks
    /\ id \in DOMAIN identities => Len(identities[id]) < MaxLen

CreaIdentita ==
    \E pem \in PemInputs, t \in Timestamps :
        /\ Cardinality(DOMAIN identities) < MaxIds
        /\ Blocks(DOMAIN identities) < MaxBlocks
        /\ Commit(creaIdentita(pem, NextId, t))

AggiornaVerificaFirmata ==
    \E id \in RequestIds, t \in Timestamps :
      \E payload \in PayloadInputs(id) :
        \E sig \in SignatureInputs(payload) :
        /\ Room(id)
        /\ Commit(aggiornaVerificaFirmata(id, payload, sig, t))

VerificaIdentita ==
    \E id \in RequestIds :
        Commit(Outcome(identities, globalChain, verificaIdentita(id)))

LegacyCreate ==
    \E t \in Timestamps :
        /\ Cardinality(DOMAIN identities) < MaxIds
        /\ Blocks(DOMAIN identities) < MaxBlocks
        /\ Commit(LegacyCreaIdentita(NextId, t))

Update ==
    \E id \in RequestIds \cup {""}, level \in {Str(<<"SPID_VERIFIED">>), Undefined},
       t \in Timestamps :
        /\ Room(id)
        /\ Commit(PostUpdate(id, level, t))

LegacyVerify ==
    \E id \in RequestIds :
        Commit(Outcome(identities, globalChain, LegacyVerificaIdentita(id)))

\* levels of the signed updates whose order the integrity check must follow
UpdateLevels == { Num("1"), Str(<<"JURY_APPROVED">>) }

StatusEvents == {"STATUS_SUSPENDED", "STATUS_REVOKED"}

\* aggiornaVerificaFirmata for an existing ledger, with a signature of
\* either key over the payload as submitted or as normalized
SignedUpdate ==
    \E id \in DOMAIN identities, l \in UpdateLevels, t \in Timestamps :
      \E sig \in { Sign(k, canonicalMessage(Payload(id, l))) : k \in Keys } \cup
                 { Sign(k, canonicalMessage(Payload(id, normalizeLevel(l)))) : k \in Keys } :
        /\ Room(id)
        /\ Commit(aggiornaVerificaFirmata(id, Payload(id, l), sig, t))

\* appendEventSigned called with a status event and no extra data.  No
\* exported function makes this call; it is the only way the module's
\* files get the status blocks that verificaIdentita reads.
AppendStatus ==
    \E id \in DOMAIN identities, event \in StatusEvents, k \in Keys, t \in Timestamps :
        LET payload == Payload(id, Str(<<event>>))
        IN  /\ Room(id)
            /\ Commit(appendEventSigned(id, event, payload,
                                         Sign(k, canonicalMessage(payload)), <<>>, t))

----------------------------------------------------------------------------
(* The ledger calls, one storage write at a time.  A request arrives, the
   call begins (reads the ledger, checks, builds the chain to store), then
   performs its storage writes in the order of the code and returns.  A
   storage write may throw instead, which ends the call. *)

\* a mistaken order: the anchor file is written before the ledger file
StepOrder_AnchorFirst == <<"anchor", "ledger">>

\* writeJson(identityPath(id), chain), then updateGlobalAnchor(id, hash)
StepOrder == <<"ledger", "anchor">>

\* a mistaken scheduler: a call begins while another is between its writes
RunsToCompletion_Interleaved == TRUE

\* the calls are synchronous (readFileSync, writeFileSync): Node runs one to
\* its return before it serves another request
RunsToCompletion == DOMAIN calls = {}

LedgerCalls == {"creaIdentita", "aggiornaVerificaFirmata", "LegacyCreaIdentita",
                "aggiornaVerifica"}

\* the id a call works on: a create draws a fresh one
CallId(r) ==
    IF r.fn \in {"creaIdentita", "LegacyCreaIdentita"} THEN IdOf(r.n) ELSE r.id

\* what the call computes from the files as it finds them
CallOutcome(r, t) ==
    LET payload == Payload(r.id, Str(<<"SPID_VERIFIED">>))
    IN  CASE r.fn = "creaIdentita" ->
                 creaIdentita(Str(<<"BEGIN PUBLIC KEY", "K1">>), CallId(r), t)
          [] r.fn = "LegacyCreaIdentita" -> LegacyCreaIdentita(CallId(r), t)
          [] r.fn = "aggiornaVerificaFirmata" ->
                 aggiornaVerificaFirmata(r.id, payload,
                                         Sign(r.signer, canonicalMessage(payload)), t)
          [] r.fn = "aggiornaVerifica" ->
                 aggiornaVerifica(r.id, Str(<<"SPID_VERIFIED">>), t)

\* the anchor file after the call's anchor write
AnchorWrite(fn, gc, id, latestHash, t) ==
    CASE fn \in {"creaIdentita", "aggiornaVerificaFirmata"} ->
             updateGlobalAnchor(gc, id, latestHash, t)
      [] fn = "LegacyCreaIdentita" -> registraSuGlobalChain(gc, id, latestHash, t)
      [] fn = "aggiornaVerifica" ->
             LET record == FindRecord(gc, id)
             IN  IF record # 0 THEN [gc EXCEPT ![record].latestHash = latestHash] ELSE gc

\* requests on the same ledger that are in flight
InFlight(id) ==
    {r \in pending : r.id = id} \cup {calls[n].req : n \in {m \in DOMAIN calls : calls[m].id = id}}

Without(f, n) == [m \in DOMAIN f \ {n} |-> f[m]]

\* a request for a ledger call arrives
Arrive ==
    \E fn \in LedgerCalls, signer \in Keys :
      \E id \in IF fn \in {"creaIdentita", "LegacyCreaIdentita"} THEN {""}
                ELSE DOMAIN identities \cup {UnknownId} :
        /\ arrived < MaxCalls
        /\ fn # "aggiornaVerificaFirmata" => signer = "K1"
        /\ arrived' = arrived + 1
        /\ pending' = pending \cup
               {[n |-> arrived + 1, fn |-> fn, id |-> id, signer |-> signer,
                 overlapped |-> id # "" /\ InFlight(id) # {}]}
        /\ UNCHANGED <<identities, globalChain, result, committed, anchored, tampers,
                       calls, accepted, failed, serverVars, attestVars>>

\* a request is served: the call reads, checks and either returns an error
\* or goes on to its storage writes
Begin ==
    \E r \in pending, t \in Timestamps :
        LET out == CallOutcome(r, t)
            id == CallId(r)
        IN  /\ RunsToCompletion
            /\ Cardinality(DOMAIN identities) < MaxIds \/ id \in DOMAIN identities
                   \/ id = UnknownId
            /\ Room(id)
            /\ pending' = pending \ {r}
            /\ IF out.result.kind = "ok"
               THEN /\ calls' = [m \in DOMAIN calls \cup {r.n} |->
                                    IF m = r.n
                                    THEN [req |-> r, id |-> id, chain |-> out.identities[id],
                                          pc |-> 1]
                                    ELSE calls[m]]
                    /\ UNCHANGED result
               ELSE /\ result' = out.result
                    /\ UNCHANGED calls
            /\ UNCHANGED <<identities, globalChain, committed, anchored, tampers,
                           arrived, accepted, failed, serverVars, attestVars>>

\* the call performs its next storage write, and returns after the last
Write ==
    \E n \in DOMAIN calls, t \in Timestamps :
        LET c == calls[n]
            block == c.chain[Len(c.chain)]
        IN  /\ IF StepOrder[c.pc] = "ledger"
               THEN /\ identities' = [i \in DOMAIN identities \cup {c.id} |->
                                         IF i = c.id THEN c.chain ELSE identities[i]]
                    /\ UNCHANGED globalChain
               ELSE /\ globalChain' = AnchorWrite(c.req.fn, globalChain, c.id, block.hash, t)
                    /\ UNCHANGED identities
            /\ IF c.pc = Len(StepOrder)
               THEN /\ calls' = Without(calls, n)
                    /\ accepted' = accepted \cup
                           {[id |-> c.id, block |-> block, overlapped |-> c.req.overlapped]}
                    /\ result' = Res(c.req.fn, "ok", "", "")
               ELSE /\ calls' = [calls EXCEPT ![n].pc = c.pc + 1]
                    /\ UNCHANGED <<accepted, result>>
            /\ UNCHANGED <<committed, anchored, tampers, pending, arrived, failed,
                           serverVars, attestVars>>

\* the call's next storage write throws: nothing is written and the call ends
WriteFails ==
    \E n \in DOMAIN calls :
        LET c == calls[n]
        IN  /\ calls' = Without(calls, n)
            /\ failed' = failed \cup
                   {[id |-> c.id, block |-> c.chain[Len(c.chain)], at |-> StepOrder[c.pc]]}
            /\ result' = Res(c.req.fn, "throw", "storage write failed", "")
            /\ UNCHANGED <<identities, globalChain, committed, anchored, tampers,
                           pending, arrived, accepted, serverVars, attestVars>>

----------------------------------------------------------------------------
(* server.js: registration, challenge and proof of possession.  With the
   in-memory store every await of a handler resolves without I/O, so a
   handler runs to its response before another request is served. *)

ChallengeTtlMs == 60000

\* a DID text: its scheme prefix, the rest, and its length
NoDid == [scheme |-> "", id |-> "", len |-> 0]

\* did:human:<base64url of the 32-byte sha256 of the key's DER bytes>
didFromPublicKeyPem(publicKeyPem) ==
    [scheme |-> "did:human:", id |-> "fp-" \o KeyMaterial(publicKeyPem), len |-> 53]

requireDid(did) == did.scheme = "did:human:" /\ did.len > 20

\* the answer of a handler
Response(op, status, error, did, nonce) ==
    [op |-> op, status |-> status, error |-> error, did |-> did, nonce |-> nonce]

\* the stores after a handler, with its answer
Handled(subj, chal, r) == [subjects |-> subj, challenges |-> chal, resp |-> r]

upsertSubject(did, publicKeyPem) ==
    IF did \in DOMAIN subjects THEN subjects
    ELSE [d \in DOMAIN subjects \cup {did} |->
              IF d = did THEN publicKeyPem ELSE subjects[d]]

\* a mistaken store: a challenge already stored for the DID is kept
setChallenge_KeepFirst(did, nonce, expMs) ==
    IF did \in DOMAIN challenges THEN challenges
    ELSE [d \in DOMAIN challenges \cup {did} |->
             IF d = did THEN [nonce |-> nonce, expMs |-> expMs] ELSE challenges[d]]

setChallenge(did, nonce, expMs) ==
    [d \in DOMAIN challenges \cup {did} |->
        IF d = did THEN [nonce |-> nonce, expMs |-> expMs] ELSE challenges[d]]

deleteChallenge(did) == [d \in DOMAIN challenges \ {did} |-> challenges[d]]

verifyEd25519Signature(publicKeyPem, message, signatureB64) ==
    CryptoVerify(message, publicKeyPem, signatureB64)

PostRegister(publicKeyPem) ==
    IF Falsy(publicKeyPem) \/ publicKeyPem.t # "string"
    THEN Handled(subjects, challenges,
                 Response("register", 400, "publicKeyPem richiesto", NoDid, ""))
    ELSE IF KeyMaterial(publicKeyPem) = "unparsable"
    THEN Handled(subjects, challenges,
                 Response("register", 400, "publicKeyPem non valido", NoDid, ""))
    ELSE LET did == didFromPublicKeyPem(publicKeyPem)
         IN  Handled(upsertSubject(did, publicKeyPem), challenges,
                     Response("register", 200, "", did, ""))

GetChallenge(did, nonce, t) ==
    IF ~requireDid(did)
    THEN Handled(subjects, challenges, Response("challenge", 400, "DID non valido", did, ""))
    ELSE IF did \notin DOMAIN subjects
    THEN Handled(subjects, challenges,
                 Response("challenge", 404, "Identita non trovata. Prima fai /register",
                          did, ""))
    ELSE Handled(subjects, setChallenge(did, nonce, t + ChallengeTtlMs),
                 Response("challenge", 200, "", did, nonce))

\* a mistaken handler: the challenge counts as expired at its deadline
PostProve_ExpireAtDeadline(did, nonce, signatureB64, t) ==
    LET Fail(status, e) ==
            Handled(subjects, challenges, Response("prove", status, e, did, nonce))
        ch == challenges[did]
    IN  IF ~requireDid(did) \/ nonce = "" \/ signatureB64.t = "undefined"
        THEN Fail(400, "did, nonce, signatureB64 richiesti")
        ELSE IF did \notin DOMAIN subjects THEN Fail(404, "Identita non trovata")
        ELSE IF did \notin DOMAIN challenges THEN Fail(400, "Challenge non trovato")
        ELSE IF t >= ch.expMs
        THEN Handled(subjects, deleteChallenge(did),
                     Response("prove", 400, "Challenge scaduto", did, nonce))
        ELSE IF ch.nonce # nonce THEN Fail(400, "Nonce non combacia")
        ELSE IF ~verifyEd25519Signature(subjects[did], nonce, signatureB64)
        THEN Fail(401, "Firma non valida")
        ELSE Handled(subjects, deleteChallenge(did), Response("prove", 200, "", did, nonce))

\* a mistaken handler: the challenge survives a successful proof
PostProve_KeepChallenge(did, nonce, signatureB64, t) ==
    LET Fail(status, e) ==
            Handled(subjects, challenges, Response("prove", status, e, did, nonce))
        ch == challenges[did]
    IN  IF ~requireDid(did) \/ nonce = "" \/ signatureB64.t = "undefined"
        THEN Fail(400, "did, nonce, signatureB64 richiesti")
        ELSE IF did \notin DOMAIN subjects THEN Fail(404, "Identita non trovata")
        ELSE IF did \notin DOMAIN challenges THEN Fail(400, "Challenge non trovato")
        ELSE IF t > ch.expMs
        THEN Handled(subjects, deleteChallenge(did),
                     Response("prove", 400, "Challenge scaduto", did, nonce))
        ELSE IF ch.nonce # nonce THEN Fail(400, "Nonce non combacia")
        ELSE IF ~verifyEd25519Signature(subjects[did], nonce, signatureB64)
        THEN Fail(401, "Firma non valida")
        ELSE Handled(subjects, challenges, Response("prove", 200, "", did, nonce))

\* a mistaken handler: a wrong nonce destroys the challenge
PostProve_DeleteOnMismatch(did, nonce, signatureB64, t) ==
    LET Fail(status, e) ==
            Handled(subjects, challenges, Response("prove", status, e, did, nonce))
        ch == challenges[did]
    IN  IF ~requireDid(did) \/ nonce = "" \/ signatureB64.t = "undefined"
        THEN Fail(400, "did, nonce, signatureB64 richiesti")
        ELSE IF did \notin DOMAIN subjects THEN Fail(404, "Identita non trovata")
        ELSE IF did \notin DOMAIN challenges THEN Fail(400, "Challenge non trovato")
        ELSE IF t > ch.expMs
        THEN Handled(subjects, deleteChallenge(did),
                     Response("prove", 400, "Challenge scaduto", did, nonce))
        ELSE IF ch.nonce # nonce
        THEN Handled(subjects, deleteChallenge(did),
                     Response("prove", 400, "Nonce non combacia", did, nonce))
        ELSE IF ~verifyEd25519Signature(subjects[did], nonce, signatureB64)
        THEN Fail(401, "Firma non valida")
        ELSE Handled(subjects, deleteChallenge(did), Response("prove", 200, "", did, nonce))

PostProve(did, nonce, signatureB64, t) ==
    LET Fail(status, e) ==
            Handled(subjects, challenges, Response("prove", status, e, did, nonce))
        ch == challenges[did]
    IN  IF ~requireDid(did) \/ nonce = "" \/ signatureB64.t = "undefined"
        THEN Fail(400, "did, nonce, signatureB64 richiesti")
        ELSE IF did \notin DOMAIN subjects THEN Fail(404, "Identita non trovata")
        ELSE IF did \notin DOMAIN challenges THEN Fail(400, "Challenge non trovato")
        ELSE IF t > ch.expMs
        THEN Handled(subjects, deleteChallenge(did),
                     Response("prove", 400, "Challenge scaduto", did, nonce))
        ELSE IF ch.nonce # nonce THEN Fail(400, "Nonce non combacia")
        ELSE IF ~verifyEd25519Signature(subjects[did], nonce, signatureB64)
        THEN Fail(401, "Firma non valida")
        ELSE Handled(subjects, deleteChallenge(did), Response("prove", 200, "", did, nonce))

(* Inputs of the handlers *)

RegisterInputs ==
    { Str(<<"BEGIN PUBLIC KEY", "K1">>), Str(<<"BEGIN PUBLIC KEY", "K2">>),
      Str(<<"BEGIN PUBLIC KEY", "junk">>), Undefined }

DidInputs ==
    { didFromPublicKeyPem(Str(<<"BEGIN PUBLIC KEY", k>>)) : k \in Keys } \cup
    { [scheme |-> "did:human:", id |-> "x", len |-> 11] }

\* crypto.randomBytes(24).toString("hex"): the n-th challenge gets the n-th nonce
NonceOf(n) == "nonce" \o ToString(n)

NonceInputs == { NonceOf(n) : n \in 1..issued } \cup {"", "guess"}

ProveSignatureInputs(nonce) == { Sign(k, nonce) : k \in Keys }

(* Server actions *)

Serve(handled) ==
  \E out \in {handled} :
    /\ subjects' = out.subjects
    /\ challenges' = out.challenges
    /\ resp' = out.resp
    /\ issued' = IF out.resp.op = "challenge" /\ out.resp.status = 200
                 THEN issued + 1 ELSE issued
    /\ issuedTo' = IF out.resp.op = "challenge" /\ out.resp.status = 200
                   THEN Append(issuedTo, out.resp.did) ELSE issuedTo
    /\ consumed' = IF out.resp.op = "prove" /\ out.resp.status = 200
                   THEN consumed \cup {<<out.resp.did, out.resp.nonce>>} ELSE consumed
    /\ mismatched' = IF out.resp.op = "prove" /\ out.resp.error = "Nonce non combacia"
                     THEN mismatched \cup {<<out.resp.did, challenges[out.resp.did].nonce>>}
                     ELSE mismatched
    /\ UNCHANGED <<now, ticks, raceVars, ledgerVars, attestVars>>

Register == \E pem \in RegisterInputs : Serve(PostRegister(pem))

Challenge ==
    \E did \in DidInputs :
        /\ issued < MaxNonces
        /\ Serve(GetChallenge(did, NonceOf(issued + 1), now))

Prove ==
    \E did \in DidInputs, nonce \in NonceInputs :
        \E sig \in ProveSignatureInputs(nonce) :
            Serve(PostProve(did, nonce, sig, now))

\* time passes
Tick ==
    \E d \in {1, ChallengeTtlMs} :
        /\ ticks < MaxTicks
        /\ now' = now + d
        /\ ticks' = ticks + 1
        /\ UNCHANGED <<subjects, challenges, issued, issuedTo, consumed, mismatched, resp,
                       raceVars, ledgerVars, attestVars>>

----------------------------------------------------------------------------
(* POST /prove on the database store (useDb).  getSubject, getChallenge and
   deleteChallenge are queries the handler awaits; while it waits, Node
   serves other requests.  A request in flight is at the await it waits at,
   and a step is the query taking effect together with the code that runs up
   to the next await or the response. *)

\* the handler's answer to one request, with the store as it leaves it
Answered(n, chal, r) ==
    /\ inflight' = [m \in DOMAIN inflight \ {n} |-> inflight[m]]
    /\ challenges' = chal
    /\ resp' = r
    /\ oks' = IF r.status = 200 THEN Append(oks, <<r.did, r.nonce>>) ELSE oks
    /\ UNCHANGED <<subjects, now, ticks, issued, issuedTo, consumed, mismatched, proofs,
                   ledgerVars, attestVars>>

\* the request moves on to its next await
Awaits(n, req) ==
    /\ inflight' = [m \in DOMAIN inflight \cup {n} |-> IF m = n THEN req ELSE inflight[m]]
    /\ UNCHANGED <<subjects, challenges, now, ticks, issued, issuedTo, consumed, mismatched,
                   resp, oks, ledgerVars, attestVars>>

\* the request is received: the argument check, then await getSubject(did)
ProveStart ==
    \E did \in DidInputs, nonce \in NonceInputs :
      \E sig \in ProveSignatureInputs(nonce) :
        /\ proofs < MaxProofs
        /\ proofs' = proofs + 1
        /\ IF ~requireDid(did) \/ nonce = "" \/ sig.t = "undefined"
           THEN /\ resp' = Response("prove", 400, "did, nonce, signatureB64 richiesti",
                                    did, nonce)
                /\ UNCHANGED <<subjects, challenges, now, ticks, issued, issuedTo, consumed,
                               mismatched, inflight, oks, ledgerVars, attestVars>>
           ELSE /\ Awaits(proofs + 1,
                          [did |-> did, nonce |-> nonce, signatureB64 |-> sig,
                           pc |-> "getSubject", subj |-> Null, expired |-> FALSE])

\* getSubject answers; then await getChallenge(did)
ProveGetSubject ==
    \E n \in DOMAIN inflight :
        LET req == inflight[n]
        IN  /\ req.pc = "getSubject"
            /\ IF req.did \notin DOMAIN subjects
               THEN Answered(n, challenges,
                             Response("prove", 404, "Identita non trovata", req.did, req.nonce))
               ELSE /\ Awaits(n, [req EXCEPT !.pc = "getChallenge",
                                             !.subj = subjects[req.did]])
                    /\ UNCHANGED proofs

\* getChallenge answers; expiry, nonce and signature are checked, then
\* await deleteChallenge(did)
ProveGetChallenge ==
    \E n \in DOMAIN inflight :
        LET req == inflight[n]
            ch == challenges[req.did]
            Refuse(status, e) ==
                Answered(n, challenges, Response("prove", status, e, req.did, req.nonce))
        IN  /\ req.pc = "getChallenge"
            /\ IF req.did \notin DOMAIN challenges THEN Refuse(400, "Challenge non trovato")
               ELSE IF now > ch.expMs
               THEN /\ Awaits(n, [req EXCEPT !.pc = "deleteChallenge", !.expired = TRUE])
                    /\ UNCHANGED proofs
               ELSE IF ch.nonce # req.nonce THEN Refuse(400, "Nonce non combacia")
               ELSE IF ~verifyEd25519Signature(req.subj, req.nonce, req.signatureB64)
               THEN Refuse(401, "Firma non valida")
               ELSE /\ Awaits(n, [req EXCEPT !.pc = "deleteChallenge"])
                    /\ UNCHANGED proofs

\* deleteChallenge is done; the handler answers
ProveDelete ==
    \E n \in DOMAIN inflight :
        LET req == inflight[n]
        IN  /\ req.pc = "deleteChallenge"
            /\ Answered(n, deleteChallenge(req.did),
                        IF req.expired
                        THEN Response("prove", 400, "Challenge scaduto", req.did, req.nonce)
                        ELSE Response("prove", 200, "", req.did, req.nonce))

----------------------------------------------------------------------------
(* server.js: attestations and the level derived from them *)

\* AI_ISSUER_KEY .. SUSPEND_KEY_3, each "" when the variable is not set
FullConfig ==
    [AI_ISSUER_KEY |-> "A", SPID_ISSUER_KEY |-> "P", JURY_ISSUER_KEY |-> "J",
     SUSPEND_KEY_1 |-> "S1", SUSPEND_KEY_2 |-> "S2", SUSPEND_KEY_3 |-> "S3"]

SparseConfig ==
    [AI_ISSUER_KEY |-> "", SPID_ISSUER_KEY |-> "P", JURY_ISSUER_KEY |-> "",
     SUSPEND_KEY_1 |-> "S1", SUSPEND_KEY_2 |-> "", SUSPEND_KEY_3 |-> ""]

Configs == {FullConfig, SparseConfig}

\* arr.includes(x)
Includes(arr, x) == \E i \in 1..Len(arr) : arr[i] = x

\* arr.filter(Boolean), for an array of strings
RECURSIVE FilterBoolean(_)
FilterBoolean(arr) ==
    IF arr = <<>> THEN <<>>
    ELSE IF Head(arr) = "" THEN FilterBoolean(Tail(arr))
    ELSE <<Head(arr)>> \o FilterBoolean(Tail(arr))

\* keys.filter(k => allowed.includes(k)).length
RECURSIVE CountAllowed(_, _)
CountAllowed(keys, allowed) ==
    IF keys = <<>> THEN 0
    ELSE (IF Includes(allowed, Head(keys)) THEN 1 ELSE 0) + CountAllowed(Tail(keys), allowed)

\* a mistaken check: an issuer key that is not configured still matches
issuerKeyValid_AnyConfigured(type, keys) ==
    IF type = "AI_VERIFIED" THEN Includes(keys, config.AI_ISSUER_KEY)
    ELSE IF type = "SPID_VERIFIED" THEN Includes(keys, config.SPID_ISSUER_KEY)
    ELSE IF type = "JURY_VERIFIED" THEN Includes(keys, config.JURY_ISSUER_KEY)
    ELSE IF type = "SUSPENDED"
    THEN LET allowed == FilterBoolean(<<config.SUSPEND_KEY_1, config.SUSPEND_KEY_2,
                                        config.SUSPEND_KEY_3>>)
         IN  CountAllowed(keys, allowed) >= 2
    ELSE FALSE

issuerKeyValid(type, keys) ==
    IF type = "AI_VERIFIED"
    THEN config.AI_ISSUER_KEY # "" /\ Includes(keys, config.AI_ISSUER_KEY)
    ELSE IF type = "SPID_VERIFIED"
    THEN config.SPID_ISSUER_KEY # "" /\ Includes(keys, config.SPID_ISSUER_KEY)
    ELSE IF type = "JURY_VERIFIED"
    THEN config.JURY_ISSUER_KEY # "" /\ Includes(keys, config.JURY_ISSUER_KEY)
    ELSE IF type = "SUSPENDED"
    THEN LET allowed == FilterBoolean(<<config.SUSPEND_KEY_1, config.SUSPEND_KEY_2,
                                        config.SUSPEND_KEY_3>>)
         IN  CountAllowed(keys, allowed) >= 2
    ELSE FALSE

\* attList.some(a => a.type === type && !a.revoked)
Some(attList, type) ==
    \E i \in 1..Len(attList) : attList[i].type = type /\ ~attList[i].revoked

\* a mistaken derivation: revoked records count
levelFromAttestations_CountRevoked(attList) ==
    LET Has(type) == \E i \in 1..Len(attList) : attList[i].type = type
    IN  IF Has("SUSPENDED") THEN "SUSPENDED"
        ELSE IF Has("AI_VERIFIED") /\ Has("SPID_VERIFIED") /\ Has("JURY_VERIFIED")
        THEN "MAX_VERIFIED"
        ELSE IF Has("AI_VERIFIED") /\ Has("SPID_VERIFIED") THEN "STRONG_VERIFIED"
        ELSE IF Has("AI_VERIFIED") THEN "AI_VERIFIED"
        ELSE "UNVERIFIED"

levelFromAttestations(attList) ==
    LET hasAI == Some(attList, "AI_VERIFIED")
        hasSPID == Some(attList, "SPID_VERIFIED")
        hasJURY == Some(attList, "JURY_VERIFIED")
        suspended == Some(attList, "SUSPENDED")
    IN  IF suspended THEN "SUSPENDED"
        ELSE IF hasAI /\ hasSPID /\ hasJURY THEN "MAX_VERIFIED"
        ELSE IF hasAI /\ hasSPID THEN "STRONG_VERIFIED"
        ELSE IF hasAI THEN "AI_VERIFIED"
        ELSE "UNVERIFIED"

\* Math.floor(Date.now() / 1000)
nowSec(t) == t \div 1000

\* mem.attestations.get(did) || []
listAttestations(did) ==
    IF did \in DOMAIN attestations THEN attestations[did] ELSE <<>>

\* the record addAttestation pushes
AttestationRecord(type, payloadObj, t) ==
    [id |-> <<type, t>>, type |-> type, payload |-> payloadObj, issuedAt |-> t,
     revoked |-> FALSE]

\* a mistaken store: the new record takes the place of the list
addAttestation_Replace(did, type, payloadObj, t) ==
    [d \in DOMAIN attestations \cup {did} |->
        IF d = did THEN <<AttestationRecord(type, payloadObj, t)>>
        ELSE attestations[d]]

addAttestation(did, type, payloadObj, t) ==
    [d \in DOMAIN attestations \cup {did} |->
        IF d = did THEN Append(listAttestations(did), AttestationRecord(type, payloadObj, t))
        ELSE attestations[d]]

\* the attestation store after a handler, with its answer
Attested(atts, r) == [attestations |-> atts, resp |-> r]

\* issuerKeys as an array: itself, or the single non-empty value, or nothing
KeysOf(issuerKeys) ==
    IF issuerKeys.t = "array" THEN issuerKeys.v
    ELSE IF issuerKeys.t = "string" /\ issuerKeys.v # <<"">> THEN issuerKeys.v
    ELSE <<>>

\* { ...(payload || {}), issuedAt: nowSec() }
PayloadObj(payload, t) ==
    [fields |-> IF payload.t = "object" THEN payload.v ELSE <<>>, issuedAt |-> nowSec(t)]

PostAttest(did, type, payload, issuerKeys, t) ==
    IF ~requireDid(did) \/ type = ""
    THEN Attested(attestations, Response("attest", 400, "did e type richiesti", did, ""))
    ELSE IF did \notin DOMAIN subjects
    THEN Attested(attestations, Response("attest", 404, "Identita non trovata", did, ""))
    ELSE IF ~issuerKeyValid(type, KeysOf(issuerKeys))
    THEN Attested(attestations,
                  Response("attest", 401, "issuerKeys non valide per questo type", did, ""))
    ELSE Attested(addAttestation(did, type, PayloadObj(payload, t), t),
                  Response("attest", 200, "", did, ""))

\* the body of a successful GET /verify/:did
VerifyResponse(did, status, atts) ==
    [op |-> "verify", status |-> 200, error |-> "", did |-> did, nonce |-> "",
     level |-> status, attestations |-> atts]

GetVerify(did) ==
    IF ~requireDid(did)
    THEN Attested(attestations, Response("verify", 400, "DID non valido", did, ""))
    ELSE IF did \notin DOMAIN subjects
    THEN Attested(attestations, Response("verify", 404, "Identita non trovata", did, ""))
    ELSE LET atts == listAttestations(did)
         IN  Attested(attestations, VerifyResponse(did, levelFromAttestations(atts), atts))

(* Inputs *)

TypeInputs == {"AI_VERIFIED", "SPID_VERIFIED", "JURY_VERIFIED", "SUSPENDED", "OTHER", ""}

KeyArray(keys) == [t |-> "array", v |-> keys]

\* issuerKeys of a request: absent, one string, or an array of strings
IssuerKeysInputs ==
    {Undefined, Str(<<"A">>), Str(<<"">>)} \cup
    { KeyArray(keys) : keys \in
        { <<>>, <<"">>, <<"A">>, <<"P">>, <<"J">>, <<"S1">>, <<"S1", "S1">>,
          <<"S1", "S2">>, <<"S3", "X", "S2">>, <<"S1", "">>, <<"S1", "X">>,
          <<"X", "P">> } }

AttestPayloadInputs == {[t |-> "object", v |-> <<"score">>]}

(* Actions *)

RECURSIVE Stored(_)
Stored(dids) ==
    IF dids = {} THEN 0
    ELSE LET d == CHOOSE d \in dids : TRUE
         IN  Len(attestations[d]) + Stored(dids \ {d})

ServeAttest(attested) ==
  \E out \in {attested} :
    /\ attestations' = out.attestations
    /\ resp' = out.resp
    /\ UNCHANGED <<subjects, challenges, now, ticks, issued, issuedTo, consumed,
                   mismatched, raceVars, config, ledgerVars>>

Attest ==
    /\ Stored(DOMAIN attestations) < MaxAtts
    /\ \E did \in DidInputs, type \in TypeInputs :
         \E payload \in AttestPayloadInputs, issuerKeys \in IssuerKeysInputs :
           ServeAttest(PostAttest(did, type, payload, issuerKeys, now))

Verify == \E did \in DidInputs : ServeAttest(GetVerify(did))

\* a stored attestation is marked revoked in the store
Revoke ==
    \E did \in DOMAIN attestations :
      \E i \in 1..Len(attestations[did]) :
        /\ ~attestations[did][i].revoked
        /\ attestations' = [attestations EXCEPT ![did][i].revoked = TRUE]
        /\ resp' = Response("", 0, "", NoDid, "")
        /\ UNCHANGED <<subjects, challenges, now, ticks, issued, issuedTo, consumed,
                       mismatched, raceVars, config, ledgerVars>>

----------------------------------------------------------------------------
(* Out-of-band edits of the two files (no code of the repository) *)

\* values an anchor may be overwritten with: a foreign one, or the hash of
\* any block of the subject's ledger
AllHashes(id) ==
    {"forged"} \cup {identities[id][n].hash : n \in 1..Len(identities[id])}

Tampered(ids, gc) ==
    /\ tampers < MaxTampers
    /\ tampers' = tampers + 1
    /\ identities' = ids
    /\ globalChain' = gc
    /\ result' = Res("", "ok", "", "")
    /\ UNCHANGED <<committed, anchored, stepVars, serverVars, attestVars>>

\* the latestHash of a subject's anchor record is overwritten
TamperAnchor ==
    \E id \in DOMAIN identities :
      \E h \in AllHashes(id) :
        LET rec == FindRecord(globalChain, id)
        IN  /\ rec # 0
            /\ h # globalChain[rec].latestHash
            /\ Tampered(identities, [globalChain EXCEPT ![rec].latestHash = h])

\* the last blocks of a ledger file are removed
RollbackLedger ==
    \E id \in DOMAIN identities :
        \E k \in 0..(Len(identities[id]) - 1) :
            Tampered([identities EXCEPT ![id] = SubSeq(@, 1, k)], globalChain)

\* one field of one block of a ledger file is rewritten
EditBlock ==
    \E id \in DOMAIN identities :
        \E n \in 1..Len(identities[id]), field \in {"data", "hash"} :
            LET b == identities[id][n]
                edited ==
                    IF field = "data"
                    THEN [b EXCEPT !.data.verificationLevel = Str(<<"JURY_APPROVED">>)]
                    ELSE [b EXCEPT !.hash = "forged"]
            IN  /\ edited # b
                /\ Tampered([identities EXCEPT ![id][n] = edited], globalChain)

InitStores ==
    /\ identities = <<>>
    /\ globalChain = <<>>
    /\ result = Res("", "ok", "", "")
    /\ committed = <<>>
    /\ anchored = <<>>
    /\ tampers = 0
    /\ pending = {}
    /\ calls = <<>>
    /\ arrived = 0
    /\ accepted = {}
    /\ failed = {}
    /\ subjects = <<>>
    /\ challenges = <<>>
    /\ now = 0
    /\ ticks = 0
    /\ issued = 0
    /\ issuedTo = <<>>
    /\ consumed = {}
    /\ mismatched = {}
    /\ resp = Response("", 0, "", NoDid, "")
    /\ inflight = <<>>
    /\ proofs = 0
    /\ oks = <<>>
    /\ attestations = <<>>

Init ==
    /\ InitStores
    /\ config = FullConfig

\* the server started with any of the environments
InitAttest ==
    /\ InitStores
    /\ config \in Configs

Next ==
    \/ CreaIdentita
    \/ AggiornaVerificaFirmata
    \/ VerificaIdentita
    \/ LegacyCreate
    \/ Update
    \/ LegacyVerify

Spec == Init /\ [][Next]_vars

\* the signed ledger's operations with out-of-band edits of the files
\* between them
NextTamper ==
    \/ CreaIdentita
    \/ AggiornaVerificaFirmata
    \/ VerificaIdentita
    \/ TamperAnchor
    \/ RollbackLedger
    \/ EditBlock

SpecTamper == Init /\ [][NextTamper]_vars

\* the signed ledger's operations with status events appended
NextStatus ==
    \/ CreaIdentita
    \/ SignedUpdate
    \/ AppendStatus
    \/ VerificaIdentita

SpecStatus == Init /\ [][NextStatus]_vars

\* the ledger calls of both modules, one storage write at a time
NextSteps ==
    \/ Arrive
    \/ Begin
    \/ Write
    \/ WriteFails

SpecSteps == Init /\ [][NextSteps]_vars

\* the handlers of server.js and the clock
NextAuth ==
    \/ Register
    \/ Challenge
    \/ Prove
    \/ Tick

SpecAuth == Init /\ [][NextAuth]_vars

\* the same server on the database store: /prove advances await by await
NextRace ==
    \/ Register
    \/ Challenge
    \/ Tick
    \/ ProveStart
    \/ ProveGetSubject
    \/ ProveGetChallenge
    \/ ProveDelete

SpecRace == Init /\ [][NextRace]_vars

\* registration, attestation and verification
NextAttest ==
    \/ Register
    \/ Attest
    \/ Verify

SpecAttest == InitAttest /\ [][NextAttest]_vars

\* the same with attestation rows marked revoked in the store
NextLevel ==
    \/ Register
    \/ Attest
    \/ Revoke
    \/ Verify

SpecLevel == Init /\ [][NextLevel]_vars

----------------------------------------------------------------------------
(* Properties of the ledger *)

Last(chain) == chain[Len(chain)]

AnchorRecords(id) == {i \in 1..Len(globalChain) : globalChain[i].id = id}

\* C1: a call of appendEventSigned that returns an error leaves every ledger
\* and the whole anchor file as they were before the call.
C1_RejectedAppendChangesNothing ==
    [][(result'.op = "appendEventSigned" /\ result'.kind = "error")
          => (identities' = identities /\ globalChain' = globalChain)]_vars

\* C1 happens: an append was refused for its signature on a ledger that
\* already holds an appended block
C1_Witness ==
    /\ result.op = "appendEventSigned"
    /\ result.error = "Firma NON valida. Update rifiutato."
    /\ \E id \in DOMAIN identities : Len(identities[id]) >= 2

\* C2: every block after the genesis block carries a payload and a signature
\* that verifies, over the payload's canonical message, under the public key
\* of the ledger's genesis block.
C2_EveryLaterBlockSigned ==
    \A id \in DOMAIN identities :
        \A i \in 2..Len(identities[id]) :
            LET b == identities[id][i]
                pk == getGenesisPublicKey(identities[id])
            IN  /\ ~Falsy(pk)
                /\ {"payload", "signatureB64"} \subseteq DOMAIN b.data
                /\ CryptoVerify(canonicalMessage(b.data.payload), pk, b.data.signatureB64)

\* C3: every ledger starts with index 0 and previousHash GENESIS, and every
\* later block has its position as index and, as previousHash, the hash of
\* the block before it recomputed without the hash field, which is also the
\* hash that block stores.
C3_ChainLinked ==
    \A id \in DOMAIN identities :
        LET chain == identities[id]
        IN  /\ chain # <<>>
            /\ chain[1].index = 0
            /\ chain[1].previousHash = "GENESIS"
            /\ \A i \in 2..Len(chain) :
                   /\ chain[i].index = i - 1
                   /\ chain[i].previousHash = sha256(Stringify(WithoutHash(chain[i - 1])))
                   /\ chain[i].previousHash = chain[i - 1].hash

\* C3 happens: a ledger holds two appended blocks, one of them signed
C3_Witness ==
    \E id \in DOMAIN identities :
        /\ Len(identities[id]) = 3
        /\ "signatureB64" \in DOMAIN identities[id][3].data

\* C4: in every step every ledger that exists stays, and the ledger before
\* the step is a prefix of the ledger after it.
C4_AppendOnly ==
    [][\A id \in DOMAIN identities :
           /\ id \in DOMAIN identities'
           /\ Len(identities'[id]) >= Len(identities[id])
           /\ SubSeq(identities'[id], 1, Len(identities[id])) = identities[id]]_vars

\* C4 happens: signed and unsigned appends have extended a ledger while
\* another ledger exists
C4_Witness ==
    /\ Cardinality(DOMAIN identities) = 2
    /\ \E id \in DOMAIN identities :
           /\ Len(identities[id]) = 3
           /\ "signatureB64" \in DOMAIN identities[id][2].data
           /\ "signatureB64" \notin DOMAIN identities[id][3].data

----------------------------------------------------------------------------
(* Properties of the integrity check *)

AnchorHash(id) == globalChain[FindRecord(globalChain, id)].latestHash

\* the subject's anchor record is the one the ledger code last wrote
AnchorKept(id) == FindRecord(globalChain, id) # 0 /\ AnchorHash(id) = anchored[id]

\* C6: when a subject's anchor holds anything but the hash of the last block
\* of its ledger, and the ledger is as the code wrote it, verificaIdentita
\* returns valid = false, with blocks and verificationLevel taken from the
\* stored chain.
C6_AlteredAnchorDetected ==
    \A id \in DOMAIN identities :
        LET chain == identities[id]
            r == verificaIdentita(id)
        IN  ( /\ chain = committed[id]
              /\ FindRecord(globalChain, id) # 0
              /\ AnchorHash(id) # Last(chain).hash )
            => /\ r.kind = "ok"
               /\ ~r.valid
               /\ ~LegacyVerificaIdentita(id).valid
               /\ r.blocks = Len(chain)
               /\ (Len(chain) >= 2 /\ Last(chain).event = "UPDATE_VERIFICATION")
                      => r.verificationLevel = Last(chain).data.verificationLevel

\* C6 happens: verificaIdentita answered valid = false for a ledger of
\* several blocks that is as written, under an overwritten anchor
C6_Witness ==
    /\ result.op = "verificaIdentita"
    /\ result.kind = "ok"
    /\ ~result.valid
    /\ result.blocks >= 2
    /\ identities[result.id] = committed[result.id]
    /\ AnchorHash(result.id) # anchored[result.id]

\* C7 as stated: whenever a ledger differs from what the code wrote (blocks
\* removed, or any block edited) and the anchor is kept, verificaIdentita
\* returns valid = false.
C7_AnyLedgerEditDetected ==
    \A id \in DOMAIN identities :
        (identities[id] # committed[id] /\ AnchorKept(id))
            => (verificaIdentita(id).kind = "ok" /\ ~verificaIdentita(id).valid)

\* C7 amended: when a ledger is a non-empty proper prefix of what the code
\* wrote, or its last block differs in a field other than hash from the last
\* block the code wrote, and the anchor is kept, verificaIdentita returns
\* valid = false.
C7_TailTamperDetected ==
    \A id \in DOMAIN identities :
        LET chain == identities[id]
            written == committed[id]
        IN  ( /\ AnchorKept(id)
              /\ chain # <<>>
              /\ \/ Len(chain) < Len(written) /\ chain = SubSeq(written, 1, Len(chain))
                 \/ /\ Len(chain) = Len(written)
                    /\ WithoutHash(Last(chain)) # WithoutHash(Last(written)) )
            => /\ verificaIdentita(id).kind = "ok"
               /\ ~verificaIdentita(id).valid
               /\ ~LegacyVerificaIdentita(id).valid

\* C7 happens: verificaIdentita answered valid = false for a ledger that
\* lost its last blocks while its anchor was kept
C7_Witness ==
    /\ result.op = "verificaIdentita"
    /\ result.kind = "ok"
    /\ ~result.valid
    /\ AnchorKept(result.id)
    /\ result.blocks < Len(committed[result.id])
    /\ identities[result.id] = SubSeq(committed[result.id], 1, result.blocks)

----------------------------------------------------------------------------
(* Properties of the challenge *)

ValidSignature(did, nonce) == Sign(KeyMaterial(subjects[did]), nonce)

\* C8: once /prove has answered ok for a DID and nonce, no /prove for that
\* DID with that nonce is answered ok again, whatever signature it carries,
\* and while no challenge is stored for the DID the answer is "challenge not
\* found".
C8_ChallengeSingleUse ==
    \A c \in consumed :
        \A sig \in ProveSignatureInputs(c[2]) :
            LET r == PostProve(c[1], c[2], sig, now).resp
            IN  /\ r.status # 200
                /\ (c[1] \notin DOMAIN challenges)
                       => r.error = "Challenge non trovato"

\* C8 happens: a nonce that was accepted after a wrong-nonce attempt is
\* presented again and refused as not found
C8_Witness ==
    /\ resp.op = "prove"
    /\ resp.error = "Challenge non trovato"
    /\ <<resp.did, resp.nonce>> \in consumed
    /\ <<resp.did, resp.nonce>> \in mismatched

\* C9: after /prove answered that the signature is invalid, no challenge is
\* stored for that DID.
C9_BadSignatureConsumesChallenge ==
    (resp.op = "prove" /\ resp.error = "Firma non valida")
        => resp.did \notin DOMAIN challenges

\* C10: a /prove answered with the nonce mismatch leaves every stored
\* challenge as it was, and from then on, until the challenge expires, a
\* /prove with the stored nonce and a valid signature is answered ok.
C10_MismatchKeepsChallenge ==
    /\ [][(resp'.op = "prove" /\ resp'.error = "Nonce non combacia")
             => challenges' = challenges]_vars
    /\ [](\A m \in mismatched :
             (/\ m[1] \in DOMAIN challenges
              /\ challenges[m[1]].nonce = m[2]
              /\ now <= challenges[m[1]].expMs)
                 => PostProve(m[1], m[2], ValidSignature(m[1], m[2]), now).resp.status = 200)

\* C10 happens: /prove answered ok for a nonce after a wrong nonce had been
\* presented against it
C10_Witness ==
    /\ resp.op = "prove"
    /\ resp.status = 200
    /\ <<resp.did, resp.nonce>> \in mismatched

\* the nonces issued for a DID, as their numbers in issue order
IssuedFor(did) == {n \in 1..Len(issuedTo) : issuedTo[n] = did}

\* the number of the nonce last issued for a DID
LastIssuedFor(did) == CHOOSE n \in IssuedFor(did) : \A m \in IssuedFor(did) : m <= n

\* C11: a challenge is stored with expMs = time of issue + 60000; while it
\* is stored, a /prove with its nonce and a valid signature is answered ok
\* at any time now <= expMs, and at now > expMs it is answered with the
\* expired error and the challenge is deleted.
C11_ExpiryWindow ==
    /\ [][issued' # issued
             => challenges'[resp'.did].expMs = now + 60000]_vars
    /\ [](\A d \in DOMAIN challenges :
             LET h == PostProve(d, challenges[d].nonce,
                                ValidSignature(d, challenges[d].nonce), now)
             IN  IF now > challenges[d].expMs
                 THEN /\ h.resp.status = 400
                      /\ h.resp.error = "Challenge scaduto"
                      /\ d \notin DOMAIN h.challenges
                 ELSE h.resp.status = 200)

\* C11 happens: the nonce last issued for a DID was presented after its
\* expiry, was refused as expired, and the challenge is gone
C11_Witness ==
    /\ resp.op = "prove"
    /\ resp.error = "Challenge scaduto"
    /\ IssuedFor(resp.did) # {}
    /\ resp.nonce = NonceOf(LastIssuedFor(resp.did))
    /\ resp.did \notin DOMAIN challenges

\* C12: only registered DIDs hold a challenge, a request for an unknown DID
\* is answered not-found and stores nothing, a successful request replaces
\* the DID's challenge by the new nonce, and a nonce issued for a DID before
\* its latest one is never accepted by /prove.
C12_ChallengeIssue ==
    /\ [][resp'.op = "challenge" =>
             IF resp'.status = 200
             THEN /\ resp'.did \in DOMAIN subjects
                  /\ challenges'[resp'.did].nonce = resp'.nonce
                  /\ \A d \in DOMAIN challenges :
                         d # resp'.did => (d \in DOMAIN challenges'
                                           /\ challenges'[d] = challenges[d])
             ELSE /\ challenges' = challenges
                  /\ (requireDid(resp'.did) /\ resp'.did \notin DOMAIN subjects)
                         => resp'.status = 404]_vars
    /\ [](/\ DOMAIN challenges \subseteq DOMAIN subjects
          /\ \A d \in DOMAIN subjects :
                 \A n \in IssuedFor(d) :
                     n # LastIssuedFor(d) =>
                         PostProve(d, NonceOf(n), ValidSignature(d, NonceOf(n)), now)
                             .resp.status # 200)

\* C12 happens: after a second challenge was issued for a DID, the nonce of
\* the first was presented and refused
C12_Witness ==
    /\ resp.op = "prove"
    /\ resp.error = "Nonce non combacia"
    /\ \E n \in IssuedFor(resp.did) :
           /\ resp.nonce = NonceOf(n)
           /\ n # LastIssuedFor(resp.did)

----------------------------------------------------------------------------
(* Properties of the attestations *)

\* C13: an attest call of type SUSPENDED for a registered DID is accepted
\* exactly when issuerKeys holds at least two different keys of the
\* configured suspension keys, and a refused call records nothing.
C13_SuspensionNeedsTwoDistinctKeys ==
    LET authority == {config.SUSPEND_KEY_1, config.SUSPEND_KEY_2, config.SUSPEND_KEY_3}
                         \ {""}
    IN  \A d \in DOMAIN subjects, ik \in IssuerKeysInputs, p \in AttestPayloadInputs :
            LET h == PostAttest(d, "SUSPENDED", p, ik, now)
            IN  /\ h.resp.status = 200
                       <=> Cardinality(Range(KeysOf(ik)) \cap authority) >= 2
                /\ h.resp.status # 200 => h.attestations = attestations

\* C14: an attest call of type AI_VERIFIED, SPID_VERIFIED or JURY_VERIFIED
\* is accepted only when the issuer key configured for that type is set and
\* is among issuerKeys, and a call of an unknown type is never accepted.
C14_IssuerKeyOfTheType ==
    \A d \in DidInputs, type \in TypeInputs \ {"SUSPENDED"} :
        \A ik \in IssuerKeysInputs, p \in AttestPayloadInputs :
            LET key == CASE type = "AI_VERIFIED" -> config.AI_ISSUER_KEY
                         [] type = "SPID_VERIFIED" -> config.SPID_ISSUER_KEY
                         [] type = "JURY_VERIFIED" -> config.JURY_ISSUER_KEY
                         [] OTHER -> ""
            IN  PostAttest(d, type, p, ik, now).resp.status = 200
                    => (key # "" /\ key \in Range(KeysOf(ik)))

\* C14 happens: an attestation of one of the three types was accepted
C14_Witness ==
    /\ resp.op = "attest"
    /\ resp.status = 200
    /\ Last(attestations[resp.did]).type
           \in {"AI_VERIFIED", "SPID_VERIFIED", "JURY_VERIFIED"}

\* C15: an accepted attest appends one record with revoked = false to the
\* DID's list and changes no other record of any list; a refused attest
\* leaves every list as it was.
C15_AttestationsAppendOnly ==
    [][resp'.op = "attest" =>
          IF resp'.status = 200
          THEN LET did == resp'.did
                   old == listAttestations(did)
               IN  /\ Len(attestations'[did]) = Len(old) + 1
                   /\ SubSeq(attestations'[did], 1, Len(old)) = old
                   /\ ~Last(attestations'[did]).revoked
                   /\ \A d \in DOMAIN attestations :
                          d # did => attestations'[d] = attestations[d]
                   /\ DOMAIN attestations' = DOMAIN attestations \cup {did}
          ELSE attestations' = attestations]_vars

\* C15 happens: an attestation was added after an earlier one of the DID
C15_Witness ==
    /\ resp.op = "attest"
    /\ resp.status = 200
    /\ Len(attestations[resp.did]) >= 2

----------------------------------------------------------------------------
(* Properties of the storage writes *)

\* C17: after an append that a storage failure ended, the ledger does not
\* hold the append's block while the anchor still holds the hash of the
\* block before it.
C17_FailedAppendAllOrNothing ==
    \A f \in failed :
        LET rec == FindRecord(globalChain, f.id)
        IN  ~(/\ f.block.index > 0
              /\ f.id \in DOMAIN identities
              /\ f.block \in Range(identities[f.id])
              /\ rec # 0
              /\ globalChain[rec].latestHash = f.block.previousHash)

\* C18: whatever the order in which requests that are in flight together
\* are served, no ledger holds two blocks with the same index or the same
\* previousHash, and the block of every call that returned success is in
\* its ledger.
C18_AppendsSerialized ==
    /\ \A id \in DOMAIN identities :
           \A i, j \in 1..Len(identities[id]) :
               i # j => /\ identities[id][i].index # identities[id][j].index
                        /\ identities[id][i].previousHash # identities[id][j].previousHash
    /\ \A a \in accepted :
           a.id \in DOMAIN identities /\ a.block \in Range(identities[a.id])

\* C18 happens: two appends on one ledger that were in flight together
\* both returned success
C18_Witness ==
    \E a, b \in accepted :
        /\ a # b
        /\ a.id = b.id
        /\ a.block.index > 0
        /\ b.block.index > 0
        /\ b.overlapped

\* C19: in every state, between the storage writes of a call too, the
\* latestHash of every anchor record is the hash of a block stored in the
\* ledger the record names.
C19_AnchorNeverAhead ==
    \A k \in 1..Len(globalChain) :
        /\ globalChain[k].id \in DOMAIN identities
        /\ \E i \in 1..Len(identities[globalChain[k].id]) :
               identities[globalChain[k].id][i].hash = globalChain[k].latestHash

\* C19 happens: an append has stored its block and not yet written the
\* anchor, which still names the block before
C19_Witness ==
    \E n \in DOMAIN calls :
        LET c == calls[n]
            rec == FindRecord(globalChain, c.id)
        IN  /\ c.pc = 2
            /\ Len(c.chain) > 1
            /\ identities[c.id] = c.chain
            /\ rec # 0
            /\ globalChain[rec].latestHash = c.chain[Len(c.chain) - 1].hash

----------------------------------------------------------------------------
(* Properties of /prove under concurrent requests *)

\* C20: /prove answers ok at most once for a DID and an issued nonce, also
\* when several requests for them wait at the handler's awaits together.
C20_OneOkPerChallenge ==
    \A i, j \in 1..Len(oks) : i # j => oks[i] # oks[j]

----------------------------------------------------------------------------
(* Properties of the signed update *)

\* level values a caller may put in a payload: the numbers 0..3, another
\* number, a level name, and a level name with blanks around it
SubmittedLevels ==
    { Num("0"), Num("1"), Num("2"), Num("3"), Num("7"),
      Str(<<"SPID_VERIFIED">>), Str(<<" ", "SPID_VERIFIED", " ">>) }

\* what a key holder can produce for a payload: the signature of the
\* payload as submitted and the signature of the payload with the level
\* replaced by its normalized name
SignaturesOver(payload) ==
    { Sign(k, canonicalMessage(payload)) : k \in Keys } \cup
    { Sign(k, canonicalMessage([payload EXCEPT !.level = normalizeLevel(payload.level)])) :
          k \in Keys }

\* the signature verifies, under the genesis public key of the ledger id,
\* over the canonical message of payload
SignedByGenesisKey(id, payload, sig) ==
    /\ ChainExists(id)
    /\ ~Falsy(getGenesisPublicKey(getChain(id)))
    /\ sig.t = "string"
    /\ CryptoVerify(canonicalMessage(payload), getGenesisPublicKey(getChain(id)), sig)

\* C21: aggiornaVerificaFirmata accepts an update for a ledger exactly when
\* the signature verifies, under the ledger's genesis public key, over the
\* canonical message of the payload as the caller submitted it, whatever
\* level the payload carries (a number 0..3, another number, a string with
\* or without blanks around it).
C21_SignatureOverSubmittedPayload ==
    \A id \in DOMAIN identities, l \in SubmittedLevels, t \in Timestamps :
        \A sig \in SignaturesOver(Payload(id, l)) :
            aggiornaVerificaFirmata(id, Payload(id, l), sig, t).result.kind = "ok"
                <=> SignedByGenesisKey(id, Payload(id, l), sig)

----------------------------------------------------------------------------
(* Properties of the derived level and status *)

Max(S) == CHOOSE n \in S : \A m \in S : m <= n

\* the level of the block appended last among the UPDATE_VERIFICATION
\* blocks of a chain, AI_PENDING when it has none
LatestLevel(chain) ==
    LET updates == { i \in 1..Len(chain) : chain[i].event = "UPDATE_VERIFICATION" }
    IN  IF updates = {} THEN Str(<<"AI_PENDING">>)
        ELSE chain[Max(updates)].data.verificationLevel

\* the status of the block appended last among the status blocks of a
\* chain, ACTIVE when it has none
LatestStatus(chain) ==
    LET changes == { i \in 1..Len(chain) : chain[i].event \in StatusEvents }
    IN  IF changes = {} THEN "ACTIVE"
        ELSE IF chain[Max(changes)].event = "STATUS_SUSPENDED" THEN "SUSPENDED"
        ELSE "REVOKED"

\* verificaIdentita would answer for the ledger id with a status other
\* than ACTIVE
ReportsInactive(id) ==
    /\ id \in DOMAIN identities
    /\ verificaIdentita(id).kind = "ok"
    /\ verificaIdentita(id).status # "ACTIVE"

\* C22: what verificaIdentita reports for a ledger is the level of the
\* UPDATE_VERIFICATION block appended last (AI_PENDING when there is none),
\* the number of blocks of the ledger, and the status ACTIVE overwritten by
\* the status blocks in chain order; and a ledger for which a status other
\* than ACTIVE is reported is reported with a status other than ACTIVE
\* after every later operation.
C22_DerivedLevelAndStatus ==
    /\ [](\A id \in DOMAIN identities :
              LET v == verificaIdentita(id)
              IN  /\ v.kind = "ok"
                  /\ v.verificationLevel = LatestLevel(identities[id])
                  /\ v.status = LatestStatus(identities[id])
                  /\ v.blocks = Len(identities[id]))
    /\ [](result.op = "verificaIdentita" /\ result.kind = "ok"
              => result = verificaIdentita(result.id))
    /\ [][\A id \in {IdOf(n) : n \in 1..MaxIds} :
              ReportsInactive(id) => ReportsInactive(id)']_vars

\* C22 happens: verificaIdentita has reported, for a ledger of three
\* blocks, an updated level and a status other than ACTIVE
C22_Witness ==
    /\ result.op = "verificaIdentita"
    /\ result.kind = "ok"
    /\ result.blocks = MaxLen
    /\ result.verificationLevel \notin {Str(<<"AI_PENDING">>), Null}
    /\ result.status \in {"SUSPENDED", "REVOKED"}

----------------------------------------------------------------------------
(* Properties of a repeated signed update *)

\* the blocks of a chain that a signed append wrote
SignedBlocks(chain) ==
    { n \in 1..Len(chain) : "signatureB64" \in DOMAIN chain[n].data }

\* the payloads a caller may have submitted for the payload stored in a
\* block: those that aggiornaVerificaFirmata rewrites to it
SubmittedFor(id, stored) ==
    { p \in PayloadInputs(id) \ {Undefined} :
          [p EXCEPT !.level = normalizeLevel(p.level)] = stored }

\* C23: a call of aggiornaVerificaFirmata that has succeeded for a ledger
\* (its payload and signature are in a block of the ledger) succeeds again
\* when it is repeated with the same id, payload and signature after any
\* other operations, and appends exactly one block that carries the same
\* payload and signature; nonce and ts are not checked for reuse.
C23_ReplayAccepted ==
    \A id \in DOMAIN identities, t \in Timestamps :
        \A n \in SignedBlocks(identities[id]) :
            LET done == identities[id][n].data
            IN  /\ SubmittedFor(id, done.payload) # {}
                /\ \A p \in SubmittedFor(id, done.payload) :
                       LET out == aggiornaVerificaFirmata(id, p, done.signatureB64, t)
                       IN  /\ out.result.kind = "ok"
                           /\ Len(out.identities[id]) = Len(identities[id]) + 1
                           /\ SubSeq(out.identities[id], 1, Len(identities[id]))
                                  = identities[id]
                           /\ Last(out.identities[id]).data.payload = done.payload
                           /\ Last(out.identities[id]).data.signatureB64
                                  = done.signatureB64

\* C23 happens: a signed update has just been accepted for a ledger that
\* already held a block with the same payload and signature
C23_Witness ==
    /\ result.op = "appendEventSigned"
    /\ result.kind = "ok"
    /\ \E id \in DOMAIN identities :
           \E n \in SignedBlocks(identities[id]) :
               /\ n < Len(identities[id])
               /\ "signatureB64" \in DOMAIN Last(identities[id]).data
               /\ Last(identities[id]).data.payload = identities[id][n].data.payload
               /\ Last(identities[id]).data.signatureB64
                      = identities[id][n].data.signatureB64

====
